---- MODULE Spec2Model ----
(***************************************************************************)
(* Model of templogic/stlmilp/stl_milp_encode.py: the recursive encoder    *)
(* add_stl_constr, which turns an STL formula into MILP variables and      *)
(* constraints, and the orchestrator build_and_solve.                      *)
(*                                                                         *)
(* Python's None is the empty sequence <<>>; an optional value v is <<v>>  *)
(* where v is not itself a sequence.  A variable name (a Python string) is *)
(* a non-empty sequence of string pieces, so that concatenation is \o.     *)
(***************************************************************************)
EXTENDS Integers, Sequences, FiniteSets, TLC

\* ------------------------------------------------------------------ bounds
\* Largest number of nodes of an input formula.
MaxNodes == 3
\* The direct calls of add_stl_constr use base times 0..MaxT.
MaxT == 3
\* A supplied signal has its values at times 0..SigLen-1.
SigLen == 5

None == <<>>

Abs(n) == IF n < 0 THEN -n ELSE n

SetMax(S) == CHOOSE a \in S : \A b \in S : b <= a

SetMin(S) == CHOOSE a \in S : \A b \in S : a <= b

SeqSet(s) == {s[i] : i \in DOMAIN s}

\* ------------------------------------------------------- the formula (stl)
\* A formula node: op, args (the sub-formulas), bounds (the declared range
\* of an Expr's signal, or the window [a, b] of Always/Eventually), sig (the
\* signal an Expr reads).
Node(op, args, bounds, sig) == [op |-> op, args |-> args, bounds |-> bounds, sig |-> sig]

\* The declared range of each signal (f.args[0].bounds of an Expr).
SigBounds(sig) == IF sig = "x" THEN <<-2, 5>> ELSE <<-7, 1>>

Expr(sig) == Node("expr", <<>>, SigBounds(sig), sig)

Not(f) == Node("not", <<f>>, None, "")

Nxt(f) == Node("next", <<f>>, None, "")

And(fs) == Node("and", fs, None, "")

Or(fs) == Node("or", fs, None, "")

Always(a, b, f) == Node("alw", <<f>>, <<a, b>>, "")

Eventually(a, b, f) == Node("eve", <<f>>, <<a, b>>, "")

\* The windows the input formulas use.
AlwaysWindows == {<<0, 2>>, <<1, 1>>}

EventuallyWindows == {<<0, 1>>, <<1, 2>>}

Leaves == {Expr("x"), Expr("y")}

Unary(F) ==
    {Not(f) : f \in F} \cup {Nxt(f) : f \in F}
    \cup {Always(w[1], w[2], f) : w \in AlwaysWindows, f \in F}
    \cup {Eventually(w[1], w[2], f) : w \in EventuallyWindows, f \in F}

Binary(F, G) == {And(<<f, g>>) : f \in F, g \in G} \cup {Or(<<f, g>>) : f \in F, g \in G}

\* The formulas of exactly n nodes.
RECURSIVE FormulasOfSize(_)
FormulasOfSize(n) ==
    IF n = 1 THEN Leaves
    ELSE Unary(FormulasOfSize(n - 1))
         \cup UNION {Binary(FormulasOfSize(i), FormulasOfSize(n - 1 - i)) : i \in 1..(n - 2)}

Formulas == UNION {FormulasOfSize(n) : n \in 1..MaxNodes}

\* --------------------------------------------------------------- signals
XBase == <<1, -2, 3, 0, 5, -1>>

YBase == <<-7, 1, -3, 0, 1, -5>>

\* The value of signal sig at time t.
SigVal(sig, t) ==
    LET base == IF sig = "x" THEN XBase ELSE YBase
    IN  base[(t % Len(base)) + 1]

\* ------------------------------------------------------- RobustnessTree
TreeNode(r, index, children) == [robustness |-> r, index |-> index, children |-> children]

\* The number of children the encoder reads of the tree node of f.
Arity(f) ==
    CASE f.op = "expr" -> 0
      [] f.op \in {"not", "next"} -> 1
      [] f.op \in {"and", "or"} -> Len(f.args)
      [] OTHER -> IF f.bounds[2] >= f.bounds[1] THEN f.bounds[2] - f.bounds[1] + 1 ELSE 0

\* The sub-formula the i-th tree child of f's tree node belongs to.
ArgOf(f, i) == IF f.op \in {"and", "or"} THEN f.args[i] ELSE f.args[1]

\* A tree for formula f whose root carries robustness k; every node carries
\* its own scalar.  kind "match": the shape the encoder walks (Next hands its
\* own node to its child); "holes": the last sub-tree of every node is None;
\* "short" / "long": every And/Or/Always/Eventually node has one child fewer /
\* one child more than the formula requires.
RECURSIVE TreeOf(_, _, _)
TreeOf(f, k, kind) ==
    IF f.op = "next" THEN TreeOf(f.args[1], k, kind)
    ELSE LET n == Arity(f)
             nary == f.op \in {"and", "or", "alw", "eve"}
             sub(i) == <<TreeOf(ArgOf(f, IF i > n THEN n ELSE i), 4 * k + i, kind)>>
             full == [i \in 1..n |-> IF kind = "holes" /\ i = n THEN None ELSE sub(i)]
             kids == IF nary /\ kind = "short" /\ n > 0 THEN SubSeq(full, 1, n - 1)
                     ELSE IF nary /\ kind = "long" /\ n > 0 THEN Append(full, sub(n + 1))
                     ELSE full
         IN  TreeNode(k, IF nary /\ n > 0 THEN <<k % n>> ELSE None, kids)

TreeKinds == {"match", "holes", "short", "long"}

Trees(f) == {None} \cup {<<TreeOf(f, 1, kind)>> : kind \in TreeKinds}

\* ------------------------------------------------------------ MILP model
VARIABLES
    pc,                     \* where the caller stands
    spec,                   \* the formula, <<f>>, or None
    start_robustness_tree,  \* the warm-start tree, <<tree>>, or None
    sigLen,                 \* the signals have a value at times 0..sigLen-1
    t0,                     \* base time of the add_stl_constr call
    hd,                     \* build_and_solve: the horizon handed to model_encode_f
    m,                      \* the MILP model: vars, constrs (and the call log)
    fvar,                   \* the variable the encoder returned, or None
    vbds,                   \* the bounds the encoder returned, or None
    err,                    \* the exception that ended the call, or NoErr
    optimized,              \* m.optimize() was invoked
    status                  \* m.status

vars == <<pc, spec, start_robustness_tree, sigLen, t0, hd, m, fvar, vbds, err,
          optimized, status>>

NoErr == "none"

\* GRB.UNDEFINED: no start hint.
Undefined == None

\* create_milp: no variable or constraint of the encoder yet.  log is the
\* record of the add_stl_constr calls that returned: the node's operator,
\* the label, the time and the start hint of the tree node it was called
\* with, and what it returned.
EmptyModel == [vars |-> <<>>, constrs |-> <<>>, log |-> <<>>]

\* m.addVar(name=label, lb=lb, ub=ub) followed by y.start = start.
AddVar(mm, name, lb, ub, start) ==
    [mm EXCEPT !.vars = Append(@, [name |-> name, lb |-> lb, ub |-> ub, start |-> start])]

Constr(kind, y, expr, xx, K, index) ==
    [kind |-> kind, y |-> y, expr |-> expr, xx |-> xx, K |-> K, index |-> index]

\* m.addConstr(...)
AddConstr(mm, c) == [mm EXCEPT !.constrs = Append(@, c)]

\* What a handler returns: the model as it left it, the variable and the
\* bounds (both None for a missing signal), or the exception it raised.
Ret(mm, x, bounds) == [m |-> mm, x |-> x, bounds |-> bounds, err |-> NoErr]

Raise(mm, e) == [m |-> mm, x |-> None, bounds |-> None, err |-> e]

\* f.args[0].signal(m, t): the signal's expression at time t, None where the
\* signal has no value.
Signal(f, t) == IF t >= 0 /\ t < sigLen THEN <<[sig |-> f.sig, t |-> t]>> ELSE None

\* str(i) for an integer i, digit by digit.
Digit(d) == <<"0", "1", "2", "3", "4", "5", "6", "7", "8", "9">>[d + 1]

RECURSIVE Str(_)
Str(i) ==
    IF i < 0 THEN <<"-">> \o Str(-i)
    ELSE IF i < 10 THEN <<Digit(i)>>
    ELSE Str(i \div 10) \o <<Digit(i % 10)>>

\* label + "_not"
NotLabel(label) == label \o <<"_", "not">>

\* ChildLabel without the per-child index.
ChildLabelNoIndex(label, op, i) == label \o <<"_", op>>

\* label + "_" + op + str(i)
ChildLabel(label, op, i) == label \o <<"_", op>> \o Str(i)

\* map(max, zip(*boundss)): the largest lower bound and the largest upper
\* bound of the collected children (Python 2: map and zip build lists).
CombineBounds(boundss) ==
    <<SetMax({boundss[i][1] : i \in DOMAIN boundss}),
      SetMax({boundss[i][2] : i \in DOMAIN boundss})>>

\* max(map(abs, bounds))
BigM(bounds) == SetMax({Abs(bounds[1]), Abs(bounds[2])})

\* StartOf never reading the tree.
StartOfUnset(tree) == Undefined

\* start_robustness_tree.robustness, or GRB.UNDEFINED without a tree.
StartOf(tree) == IF tree # None THEN <<tree[1].robustness>> ELSE Undefined

\* start_robustness_tree.index, or None without a tree.
IndexOf(tree) == IF tree # None THEN tree[1].index ELSE None

\* add_min_constr / add_max_constr of milp_util (kind is "min" or "max"):
\* a new variable named label with y = min(xx) (max(xx)), its start hint r;
\* the selector variables and the big-M inequalities of the primitive are
\* the one constraint record carrying K and the start index.
AddMinMaxConstr(mm, label, xx, K, kind, r, index) ==
    AddConstr(AddVar(mm, label, -K, K, r), Constr(kind, label, None, xx, K, index))

\* _stl_expr
StlExpr(mm, label, f, t, tree) ==
    LET expr == Signal(f, t)
    IN  IF expr # None
        THEN LET bounds == f.bounds
                 y == AddVar(mm, label, bounds[1], bounds[2], StartOf(tree))
             IN  Ret(AddConstr(y, Constr("eq", label, expr, <<>>, 0, None)), label, bounds)
        ELSE Ret(mm, None, None)

\* The add_min_constr / add_max_constr choice of _stl_and_or and of
\* _stl_always_eventually.
MinMaxOf(op) == IF op \in {"and", "alw"} THEN "min" ELSE "max"

\* Offsets as range(b1, b2).
OffsetsExclusive(bounds) == bounds[1]..(bounds[2] - 1)

\* The offsets range(b1, b2 + 1) of a window.
Offsets(bounds) == bounds[1]..bounds[2]

\* Combine calling the min/max primitive on no children.
CombineDegenerate(mm, label, op, tree, xx, boundss) ==
    LET bounds == IF Len(xx) > 0 THEN CombineBounds(boundss) ELSE <<0, 0>>
        K == BigM(bounds)
    IN  Ret(AddMinMaxConstr(mm, label, xx, K, MinMaxOf(op), StartOf(tree), IndexOf(tree)),
            label, bounds)

\* The tail of _stl_and_or and of _stl_always_eventually: combine the
\* collected children, or return (None, None) when there are none.
Combine(mm, label, op, tree, xx, boundss) ==
    IF Len(xx) > 0
    THEN LET bounds == CombineBounds(boundss)
             K == BigM(bounds)
         IN  Ret(AddMinMaxConstr(mm, label, xx, K, MinMaxOf(op), StartOf(tree), IndexOf(tree)),
                 label, bounds)
    ELSE Ret(mm, None, None)

\* SetObj skipping a root that is None.
SetObjIgnoreNone(x) == NoErr

\* fvar.setAttr("obj", spec_obj): None has no setAttr.
SetObj(x) == IF x = None THEN "AttributeError" ELSE NoErr

RECURSIVE add_stl_constr(_, _, _, _, _)
RECURSIVE StlNot(_, _, _, _, _)
RECURSIVE AndOrLoop(_, _, _, _, _, _, _, _, _)
RECURSIVE AlwEveLoop(_, _, _, _, _, _, _, _, _)

\* _stl_not without the double-negation case.
StlNotNoElimination(mm, label, f, t, tree) ==
    IF tree # None /\ Len(tree[1].children) < 1 THEN Raise(mm, "IndexError")
    ELSE
    LET sub == IF tree # None THEN tree[1].children[1] ELSE None
        r == add_stl_constr(mm, NotLabel(label), f.args[1], t, sub)
    IN  IF r.err # NoErr THEN r
        ELSE IF r.x # None
        THEN LET y == AddVar(r.m, label, r.bounds[1], r.bounds[2], StartOf(tree))
             IN  Ret(AddConstr(y, Constr("neg", label, None, <<r.x>>, 0, None)),
                     label, r.bounds)
        ELSE Ret(r.m, None, None)

\* _stl_not
StlNot(mm, label, f, t, tree) ==
    IF tree # None /\ Len(tree[1].children) < 1 THEN Raise(mm, "IndexError")
    ELSE
    LET sub == IF tree # None THEN tree[1].children[1] ELSE None
    IN  IF f.args[1].op = "not"
        THEN IF sub # None /\ Len(sub[1].children) < 1 THEN Raise(mm, "IndexError")
             ELSE add_stl_constr(mm, label, f.args[1].args[1], t,
                                 IF sub # None THEN sub[1].children[1] ELSE None)
        ELSE LET r == add_stl_constr(mm, NotLabel(label), f.args[1], t, sub)
             IN  IF r.err # NoErr THEN r
                 ELSE IF r.x # None
                 THEN LET y == AddVar(r.m, label, r.bounds[1], r.bounds[2], StartOf(tree))
                      IN  Ret(AddConstr(y, Constr("neg", label, None, <<r.x>>, 0, None)),
                              label, r.bounds)
                 ELSE Ret(r.m, None, None)

\* The loop of _stl_and_or from its i-th argument on (i counts from 1; the
\* code's index is i - 1).
AndOrLoop(mm, label, f, t, op, tree, i, xx, boundss) ==
    IF i > Len(f.args) THEN Combine(mm, label, op, tree, xx, boundss)
    ELSE IF tree # None /\ i > Len(tree[1].children) THEN Raise(mm, "IndexError")
    ELSE LET sub == IF tree # None THEN tree[1].children[i] ELSE None
             r == add_stl_constr(mm, ChildLabel(label, op, i - 1), f.args[i], t, sub)
         IN  IF r.err # NoErr THEN r
             ELSE IF r.x # None
             THEN AndOrLoop(r.m, label, f, t, op, tree, i + 1,
                            Append(xx, r.x), Append(boundss, r.bounds))
             ELSE AndOrLoop(r.m, label, f, t, op, tree, i + 1, xx, boundss)

\* _stl_and_or
StlAndOr(mm, label, f, t, op, tree) == AndOrLoop(mm, label, f, t, op, tree, 1, <<>>, <<>>)

\* The loop of _stl_always_eventually from offset i on.
AlwEveLoop(mm, label, f, t, op, tree, i, xx, boundss) ==
    IF i \notin Offsets(f.bounds) THEN Combine(mm, label, op, tree, xx, boundss)
    ELSE IF tree # None /\ i - f.bounds[1] + 1 > Len(tree[1].children)
    THEN Raise(mm, "IndexError")
    ELSE LET sub == IF tree # None THEN tree[1].children[i - f.bounds[1] + 1] ELSE None
             r == add_stl_constr(mm, ChildLabel(label, op, i), f.args[1], t + i, sub)
         IN  IF r.err # NoErr THEN r
             ELSE IF r.x # None
             THEN AlwEveLoop(r.m, label, f, t, op, tree, i + 1,
                             Append(xx, r.x), Append(boundss, r.bounds))
             ELSE AlwEveLoop(r.m, label, f, t, op, tree, i + 1, xx, boundss)

\* _stl_always_eventually
StlAlwaysEventually(mm, label, f, t, op, tree) ==
    AlwEveLoop(mm, label, f, t, op, tree, f.bounds[1], <<>>, <<>>)

\* _stl_next wrapping its child in a variable of its own.
StlNextOwnVar(mm, label, f, t, tree) ==
    LET r == add_stl_constr(mm, label \o <<"_", "next">>, f.args[1], t + 1, tree)
    IN  IF r.err # NoErr \/ r.x = None THEN r
        ELSE Ret(AddMinMaxConstr(r.m, label, <<r.x>>, BigM(r.bounds), "min",
                                 StartOf(tree), None),
                 label, r.bounds)

\* _stl_next
StlNext(mm, label, f, t, tree) == add_stl_constr(mm, label, f.args[1], t + 1, tree)

\* The handler add_stl_constr dispatches f.op to.
Dispatch(mm, label, f, t, tree) ==
    CASE f.op = "expr" -> StlExpr(mm, label, f, t, tree)
      [] f.op = "not" -> StlNot(mm, label, f, t, tree)
      [] f.op \in {"and", "or"} -> StlAndOr(mm, label, f, t, f.op, tree)
      [] f.op \in {"alw", "eve"} -> StlAlwaysEventually(mm, label, f, t, f.op, tree)
      [] f.op = "next" -> StlNext(mm, label, f, t, tree)

\* The operator of node f as the log names it: a Not whose child is a Not
\* (the case _stl_not eliminates) is "notnot".
OpOf(f) == IF f.op = "not" /\ f.args[1].op = "not" THEN "notnot" ELSE f.op

\* add_stl_constr; a call that returns is entered in the log.
add_stl_constr(mm, label, f, t, tree) ==
    LET r == Dispatch(mm, label, f, t, tree)
    IN  IF r.err # NoErr THEN r
        ELSE [r EXCEPT !.m.log = Append(@, [op |-> OpOf(f), label |-> label, t |-> t,
                                            start |-> IF tree # None
                                                      THEN <<tree[1].robustness>>
                                                      ELSE None,
                                            x |-> r.x, bounds |-> r.bounds])]

\* ------------------------------------------------------- the two callers
\* The label of the direct calls of add_stl_constr.
Label == <<"L">>

\* The label build_and_solve passes.
SpecLabel == <<"spec">>

\* spec.horizon(): the largest time offset the formula reaches, Next adding
\* one and Always/Eventually their upper bound.
RECURSIVE Horizon(_)
Horizon(f) ==
    CASE f.op = "expr" -> 0
      [] f.op = "next" -> 1 + Horizon(f.args[1])
      [] f.op \in {"alw", "eve"} -> f.bounds[2] + Horizon(f.args[1])
      [] OTHER -> SetMax({Horizon(f.args[i]) : i \in DOMAIN f.args})

\* The lengths of the signals the callers supply: no value at all, or the
\* values at times 0..SigLen-1.
SigLens == {0, SigLen}

Init ==
    /\ pc = "start"
    /\ spec \in {None} \cup {<<f>> : f \in Formulas}
    /\ start_robustness_tree \in (IF spec = None THEN {None} ELSE Trees(spec[1]))
    /\ sigLen \in SigLens
    /\ t0 = 0
    /\ hd = 0
    /\ m = EmptyModel
    /\ fvar = None
    /\ vbds = None
    /\ err = NoErr
    /\ optimized = FALSE
    /\ status = "LOADED"

\* A caller's add_stl_constr(m, label, f, t, start_robustness_tree).
AddStlConstr ==
    /\ pc = "start"
    /\ spec # None
    /\ \E t \in 0..MaxT :
          LET r == add_stl_constr(m, Label, spec[1], t, start_robustness_tree)
          IN  /\ t0' = t
              /\ m' = r.m
              /\ fvar' = r.x
              /\ vbds' = r.bounds
              /\ err' = r.err
              /\ pc' = IF r.err = NoErr THEN "done" ELSE "failed"
    /\ UNCHANGED <<spec, start_robustness_tree, sigLen, hd, optimized, status>>

\* build_and_solve, up to model_encode_f(m, hd).
BuildModel ==
    /\ pc = "start"
    /\ hd' = IF spec # None THEN SetMax({0, Horizon(spec[1])}) + 1 ELSE 0
    /\ m' = EmptyModel
    /\ pc' = "built"
    /\ UNCHANGED <<spec, start_robustness_tree, sigLen, t0, fvar, vbds, err,
                   optimized, status>>

\* build_and_solve: "if spec is not None": add_stl_constr with label "spec"
\* at t = 0 and fvar.setAttr("obj", spec_obj).
AddSpec ==
    /\ pc = "built"
    /\ IF spec # None
       THEN LET r == add_stl_constr(m, SpecLabel, spec[1], 0, start_robustness_tree)
                e == IF r.err # NoErr THEN r.err ELSE SetObj(r.x)
            IN  /\ m' = r.m
                /\ fvar' = r.x
                /\ vbds' = r.bounds
                /\ err' = e
                /\ pc' = IF e = NoErr THEN "configured" ELSE "aborted"
       ELSE /\ pc' = "configured"
            /\ UNCHANGED <<m, fvar, vbds, err>>
    /\ UNCHANGED <<spec, start_robustness_tree, sigLen, t0, hd, optimized, status>>

\* build_and_solve: the solver parameters, m.update(), m.write and
\* m.optimize(); the solver decides the status.
Optimize ==
    /\ pc = "configured"
    /\ optimized' = TRUE
    /\ status' \in {"OPTIMAL", "INFEASIBLE"}
    /\ pc' = "optimized"
    /\ UNCHANGED <<spec, start_robustness_tree, sigLen, t0, hd, m, fvar, vbds, err>>

\* build_and_solve: the variable listing, the warning for a status that is
\* not OPTIMAL, and "return m".
Return ==
    /\ pc = "optimized"
    /\ pc' = "returned"
    /\ UNCHANGED <<spec, start_robustness_tree, sigLen, t0, hd, m, fvar, vbds, err,
                   optimized, status>>

Next == AddStlConstr \/ BuildModel \/ AddSpec \/ Optimize \/ Return

Spec == Init /\ [][Next]_vars

\* ------------------------------------------------------------ properties
\* The states in which a direct add_stl_constr call has returned.
Returned == pc = "done"

Phi == spec[1]

VarsNamed(mm, name) == {i \in DOMAIN mm.vars : mm.vars[i].name = name}

\* The constraint that defines variable name (y == expr, y == -x, or the
\* min/max primitive's y).
DefOf(mm, name) == mm.constrs[CHOOSE i \in DOMAIN mm.constrs : mm.constrs[i].y = name]

\* The value the constraints of mm force on variable name, the signals
\* having their values: the robustness value of the node.
RECURSIVE Value(_, _)
Value(mm, name) ==
    LET c == DefOf(mm, name)
    IN  CASE c.kind = "eq" -> SigVal(c.expr[1].sig, c.expr[1].t)
          [] c.kind = "neg" -> 0 - Value(mm, c.xx[1])
          [] c.kind = "min" -> SetMin({Value(mm, c.xx[i]) : i \in DOMAIN c.xx})
          [] c.kind = "max" -> SetMax({Value(mm, c.xx[i]) : i \in DOMAIN c.xx})

\* Every Expr leaf under f has no signal value at the time it is queried
\* when f is encoded at time t.
RECURSIVE AllLeavesUndefined(_, _)
AllLeavesUndefined(f, t) ==
    CASE f.op = "expr" -> Signal(f, t) = None
      [] f.op = "not" -> AllLeavesUndefined(f.args[1], t)
      [] f.op = "next" -> AllLeavesUndefined(f.args[1], t + 1)
      [] f.op \in {"and", "or"} -> \A i \in DOMAIN f.args : AllLeavesUndefined(f.args[i], t)
      [] OTHER -> \A i \in f.bounds[1]..f.bounds[2] : AllLeavesUndefined(f.args[1], t + i)

\* C1: for every node the encoder encoded (returned a variable for), the
\* returned bounds [lo, hi] contain the node's robustness value.
C1_BoundsContainValue ==
    Returned =>
        \A i \in DOMAIN m.log :
            LET e == m.log[i]
            IN  e.x # None =>
                    /\ e.bounds[1] <= Value(m, e.x)
                    /\ Value(m, e.x) <= e.bounds[2]

\* C2: the big-M constant K of every min/max call is at least the absolute
\* value of both bound endpoints of every collected child.
C2_KCoversChildBounds ==
    Returned =>
        \A i \in DOMAIN m.constrs :
            LET c == m.constrs[i]
            IN  c.kind \in {"min", "max"} =>
                    \A j \in DOMAIN m.log :
                        LET e == m.log[j]
                        IN  (e.x # None /\ e.x \in SeqSet(c.xx)) =>
                                /\ c.K >= Abs(e.bounds[1])
                                /\ c.K >= Abs(e.bounds[2])

\* C3: when no Expr leaf under the formula has a signal value at the time it
\* is queried, add_stl_constr returns (None, None) and leaves the model's
\* variables and constraints as they were (a call a malformed tree ends with
\* an exception leaves them so too).
C3_MissingSignalPropagates ==
    (pc \in {"done", "failed"} /\ AllLeavesUndefined(Phi, t0)) =>
        /\ fvar = None
        /\ vbds = None
        /\ m.vars = <<>>
        /\ m.constrs = <<>>

C3_Witness ==
    /\ Returned
    /\ sigLen > 0
    /\ Phi.op = "alw"
    /\ start_robustness_tree # None
    /\ AllLeavesUndefined(Phi, t0)
    /\ fvar = None

\* The tree node two levels below tree (children[0].children[0]), None when
\* the tree or its child is None.
Grandchild(tree) ==
    IF tree = None THEN None
    ELSE IF tree[1].children[1] = None THEN None
    ELSE tree[1].children[1][1].children[1]

IsDoubleNot(f) == f.op = "not" /\ f.args[1].op = "not"

\* C4: encoding Not(Not(phi)) gives exactly the variables, constraints,
\* returned variable and returned bounds of encoding phi with the same label
\* and time, phi seeded from the grandchild of the tree node.
C4_DoubleNegation ==
    (pc \in {"done", "failed"} /\ IsDoubleNot(Phi)) =>
        LET r == add_stl_constr(EmptyModel, Label, Phi.args[1].args[1], t0,
                                Grandchild(start_robustness_tree))
        IN  /\ m.vars = r.m.vars
            /\ m.constrs = r.m.constrs
            /\ fvar = r.x
            /\ vbds = r.bounds
            /\ err = r.err

C4_Witness ==
    /\ Returned
    /\ IsDoubleNot(Phi)
    /\ Grandchild(start_robustness_tree) # None
    /\ fvar # None
    /\ m.vars[Len(m.vars)].start = <<Grandchild(start_robustness_tree)[1].robustness>>

\* C5: in build_and_solve with a formula, when the encoder returns None for
\* the root the call ends with an error: optimize is never invoked and no
\* model is returned.
C5_UndefinedRootAborts ==
    (pc \in {"configured", "aborted", "optimized", "returned"} /\ spec # None /\ fvar = None) =>
        /\ pc = "aborted"
        /\ err # NoErr
        /\ ~optimized

C5_Witness ==
    /\ pc = "aborted"
    /\ err = "AttributeError"
    /\ spec # None
    /\ fvar = None
    /\ ~optimized

\* Some And/Or/Always/Eventually node the encoder visits has a tree node
\* whose number of children differs from what the formula requires.
RECURSIVE ShapeMismatch(_, _)
ShapeMismatch(f, tree) ==
    /\ tree # None
    /\ LET kids == tree[1].children
       IN  CASE f.op = "expr" -> FALSE
             [] f.op = "next" -> ShapeMismatch(f.args[1], tree)
             [] f.op = "not" -> Len(kids) >= 1 /\ ShapeMismatch(f.args[1], kids[1])
             [] OTHER ->
                 \/ Len(kids) # Arity(f)
                 \/ \E i \in 1..Arity(f) : i <= Len(kids) /\ ShapeMismatch(ArgOf(f, i), kids[i])

\* C6: a tree node of an And/Or/Always/Eventually node with fewer or more
\* children than the formula requires makes add_stl_constr fail.
C6_ShapeMismatchFails ==
    (pc \in {"done", "failed"} /\ ShapeMismatch(Phi, start_robustness_tree)) => pc = "failed"

\* C7: no two variables the encoder created in one call have the same name.
\* (No piece of a name is a prefix of another piece, so two names are the
\* same string exactly when they are the same sequence of pieces.)
C7_UniqueNames ==
    \A i, j \in DOMAIN m.vars : i # j => m.vars[i].name # m.vars[j].name

C7_Witness ==
    /\ Returned
    /\ Phi.op = "alw"
    /\ Phi.args[1].op \in {"alw", "eve"}
    /\ Len(m.vars) >= 6

\* The window formulas over a single Expr whose signal has a value at every
\* time of the window.
IsWindowOverExpr(f, t) ==
    /\ f.op \in {"alw", "eve"}
    /\ f.args[1].op = "expr"
    /\ t + f.bounds[2] < sigLen

WindowValues(f, t) == {SigVal(f.args[1].sig, t + i) : i \in f.bounds[1]..f.bounds[2]}

\* C8: Always([a,b], Expr(x)) at base time t, the signal defined on the
\* whole window: one leaf variable per offset i, constrained equal to
\* x(t+i), exactly those combined by the min encoder, so that the returned
\* variable is the min of x(t+a..t+b); Eventually: the max.  The scenarios of
\* the signal [1,-2,3,0,5,-1] are among the cases.
C8_WindowMinMax ==
    (Returned /\ IsWindowOverExpr(Phi, t0)) =>
        LET a == Phi.bounds[1]
            b == Phi.bounds[2]
            leaf(i) == ChildLabel(Label, Phi.op, i)
            top == DefOf(m, Label)
        IN  /\ Len(m.vars) = (b - a + 1) + 1
            /\ \A i \in a..b :
                  /\ Cardinality(VarsNamed(m, leaf(i))) = 1
                  /\ DefOf(m, leaf(i)).kind = "eq"
                  /\ DefOf(m, leaf(i)).expr = <<[sig |-> Phi.args[1].sig, t |-> t0 + i]>>
            /\ fvar = Label
            /\ top.kind = (IF Phi.op = "alw" THEN "min" ELSE "max")
            /\ top.xx = [k \in 1..(b - a + 1) |-> leaf(a + k - 1)]
            /\ Value(m, fvar) = (IF Phi.op = "alw" THEN SetMin(WindowValues(Phi, t0))
                                 ELSE SetMax(WindowValues(Phi, t0)))
            /\ (Phi = Always(0, 2, Expr("x")) /\ t0 = 0) => Value(m, fvar) = -2
            /\ (Phi = Always(0, 2, Expr("x")) /\ t0 = 2) => Value(m, fvar) = 0
            /\ (Phi = Eventually(0, 1, Expr("x")) /\ t0 = 3) => Value(m, fvar) = 5

C8_Witness ==
    /\ Returned
    /\ Phi = Always(0, 2, Expr("x"))
    /\ t0 = 2
    /\ IsWindowOverExpr(Phi, t0)
    /\ Len(m.vars) = 4
    /\ Value(m, fvar) = 0

\* A variable without its start hint, a constraint without its start index.
NoStartVar(v) == [name |-> v.name, lb |-> v.lb, ub |-> v.ub]

NoStartConstr(c) == [c EXCEPT !.index = None]

\* The operators whose handler creates a variable of the node's own.
Creating == {"expr", "not", "and", "or", "alw", "eve"}

\* C9: encoding with a tree and encoding without one create the same
\* variables (names, bounds) and the same constraints; with the tree the
\* variable of each node has the robustness of the node's tree node as its
\* start, without a tree (or under a None sub-tree) the start is unset, and
\* no error is raised.
C9_WarmStartOnly ==
    (Returned /\ start_robustness_tree # None) =>
        LET r == add_stl_constr(EmptyModel, Label, Phi, t0, None)
        IN  /\ r.err = NoErr
            /\ fvar = r.x
            /\ vbds = r.bounds
            /\ [i \in DOMAIN m.vars |-> NoStartVar(m.vars[i])]
                 = [i \in DOMAIN r.m.vars |-> NoStartVar(r.m.vars[i])]
            /\ [i \in DOMAIN m.constrs |-> NoStartConstr(m.constrs[i])]
                 = [i \in DOMAIN r.m.constrs |-> NoStartConstr(r.m.constrs[i])]
            /\ \A i \in DOMAIN r.m.vars : r.m.vars[i].start = Undefined
            /\ \A i \in DOMAIN m.log :
                  LET e == m.log[i]
                  IN  (e.x # None /\ e.op \in Creating) =>
                          \A k \in VarsNamed(m, e.label) : m.vars[k].start = e.start
            /\ (fvar # None /\ OpOf(Phi) \in Creating) =>
                  \A k \in VarsNamed(m, Label) :
                      m.vars[k].start = <<start_robustness_tree[1].robustness>>

C9_Witness ==
    /\ Returned
    /\ start_robustness_tree # None
    /\ Phi.op = "and"
    /\ Len(m.vars) = 3
    /\ \E i, j \in DOMAIN m.vars : m.vars[i].start = Undefined /\ m.vars[j].start # Undefined

\* The calls that returned a variable.
Encoded == {i \in DOMAIN m.log : m.log[i].x # None}

\* C10 as stated: every node add_stl_constr returned a variable for has one
\* robustness variable of its own, so there are as many variables as such
\* nodes.
C10_OneVarPerEncodedNode == Returned => Len(m.vars) = Cardinality(Encoded)

\* C10 amended: the nodes of kind Expr, And, Or, Always, Eventually, and Not
\* over a child that is not a Not, have exactly one variable of their own,
\* named by the call's label; a Next and a Not over a Not have none and
\* return the variable of the child (grandchild) they recurse into.
C10_OneVarPerCreatingNode ==
    Returned =>
        /\ Len(m.vars) = Cardinality({i \in Encoded : m.log[i].op \in Creating})
        /\ \A i \in Encoded :
              LET e == m.log[i]
              IN  IF e.op \in Creating
                  THEN e.x = e.label /\ Cardinality(VarsNamed(m, e.label)) = 1
                  ELSE \E j \in Encoded :
                          /\ j < i
                          /\ m.log[j].x = e.x
                          /\ m.log[j].op \in Creating

C10_Witness ==
    /\ Returned
    /\ Phi.op = "next"
    /\ fvar # None
    /\ Len(m.vars) = 1
    /\ Cardinality(Encoded) = 2

====
